---- MODULE Spec2Model ----
(***************************************************************************)
(* AudioStream of the NDK media writer (audiostream.cpp): the frame slot   *)
(* m_frame shared by convertPacket (producer thread) and avPacketDequeue   *)
(* (tick thread), and the codec buffer exchange of encodeData.             *)
(***************************************************************************)
EXTENDS Integers, Sequences, FiniteSets, TLC

\* ------------------------------------------------------------------ bounds
MaxDeposits == 2      \* converted frames the producer delivers
MaxFrameLen == 1      \* samples (bytes) of one converted frame
MaxTicks == 2         \* calls of encodeData
MaxSmallPts == 40     \* the presentation time check tries every pts up to it
OutCap == 1           \* capacity (bytes) of a codec output buffer
MaxLayoutSize == 3    \* positions of a channel layout
MaxLifeCalls == 3     \* calls of init(), uninit() and the destructor

\* Input buffers have a capacity of 1..MaxCap bytes, so that frames (and
\* frames grown in the slot) both fit and do not fit.
MaxCap == MaxFrameLen + 1

\* The input buffer indices the codec owns.
InputIndices == {0, 1}

\* ------------------------------------------------------- packets and frames
\* AkAudioPacket(): the invalid (empty) packet; operator bool is FALSE on it.
NullPacket == [valid |-> FALSE, buffer |-> <<>>, pts |-> 0, tb |-> <<0, 1>>]

\* Timebase of the converted frames: one tick per sample.
FrameTimeBase == <<1, 48000>>

\* The converted frame holding samples first..first+len-1; its pts is the
\* offset of its first sample in the stream.
Frame(first, len) ==
    [valid |-> TRUE,
     buffer |-> [i \in 1..len |-> first + i - 1],
     pts |-> first - 1,
     tb |-> FrameTimeBase]

\* AkAudioPacket::operator +=: an empty slot is replaced by the frame, a
\* non-empty slot gets the frame's samples appended.
AkAppend(frame, other) ==
    IF ~frame.valid THEN other
    ELSE [frame EXCEPT !.buffer = frame.buffer \o other.buffer]

RECURSIVE Flatten(_)
Flatten(frames) ==
    IF frames = <<>> THEN <<>>
    ELSE Head(frames) \o Flatten(Tail(frames))

Range(s) == {s[i] : i \in 1..Len(s)}

Min(a, b) == IF a <= b THEN a ELSE b

\* ------------------------------------------------------ presentation time
\* Microsecond values do not fit the model checker's integers, so a value is
\* kept as <<hi, lo>> = hi * 10^6 + lo with 0 <= lo < 10^6, and a uint64_t as
\* four such digits, most significant first.
MicrosPerSecond == 1000000

BigNorm(hi, lo) ==
    <<hi + (lo \div MicrosPerSecond), lo % MicrosPerSecond>>

\* floor(v / d) for 0 < d <= 2 * 10^6, by long division on digits of 1000.
BigDiv(v, d) ==
    LET qh == v[1] \div d
        r0 == v[1] % d
        t1 == (r0 * 1000) + (v[2] \div 1000)
        q1 == t1 \div d
        r1 == t1 % d
        t2 == (r1 * 1000) + (v[2] % 1000)
        q2 == t2 \div d
    IN  BigNorm(qh, (q1 * 1000) + q2)

\* round(10^6 * pts * num / den) for pts >= 0, halves rounded up: the value
\* of the double 1e6 * packet.pts() * packet.timeBase().value() plus 0.5,
\* truncated.
RoundedUs(pts, tb) ==
    LET twice == BigNorm(2 * pts * tb[1], tb[2])
    IN  BigDiv(twice, 2 * tb[2])

\* INT_MAX = 2147483647.
FitsInt(v) == v[1] < 2147 \/ (v[1] = 2147 /\ v[2] <= 483647)

ToUInt64(v) == <<0, v[1] \div MicrosPerSecond, v[1] % MicrosPerSecond, v[2]>>

\* uint64_t(INT_MAX) and uint64_t(INT_MIN) = 2^64 - 2^31.
UInt64OfIntMax == <<0, 0, 2147, 483647>>
UInt64OfIntMin == <<18, 446744, 71562, 67968>>

\* What the double-to-int conversion of qRound gives out of the range of
\* int, where the conversion is undefined: the targets of the NDK saturate
\* (arm, arm64: INT_MAX) or give the integer indefinite value (x86, x86_64:
\* INT_MIN).
IntOverflowOutcomes == {UInt64OfIntMax, UInt64OfIntMin}

\* uint64_t(qRound(1e6 * pts * timeBase.value())): the values the build
\* can pass as presentationTimeUs.
PresentationTimeUs(pts, tb) ==
    LET v == RoundedUs(pts, tb)
    IN  IF FitsInt(v) THEN {ToUInt64(v)} ELSE IntOverflowOutcomes

\* --------------------------------------------------------------- variables
VARIABLES
    m_frame,        \* AudioStreamPrivate::m_frame, the slot
    m_frameMutex,   \* holder of m_frameMutex: "free", "producer" or "tick"
    ppc,            \* producer thread: position in convertPacket
    iPacket,        \* convertPacket's local iPacket
    nDeposits,      \* converted frames delivered so far
    nextSample,     \* number of the next sample the converter delivers
    tpc,            \* tick thread: position in encodeData / avPacketDequeue
    eos,            \* encodeData's parameter
    packet,         \* encodeData's local packet (the frame pulled)
    bufferIndex,    \* encodeData's local bufferIndex
    info,           \* encodeData's local AMediaCodecBufferInfo
    oPacket,        \* the packet readPacket returned
    result,         \* what the last encodeData call returned
    nTicks,         \* encodeData calls so far
    inputFree,      \* input buffer indices the codec can hand out
    outSerial,      \* output buffers the codec has delivered so far
    calls,          \* codec calls and signals of the current tick, in order
    queued,         \* every queueInputBuffer call so far, in order
    delivered,      \* serial of every output buffer dequeued, in order
    released,       \* serial of every output buffer released, in order
    emitted,        \* serial of the buffer behind every packetReady, in order
    deposited,      \* samples of all frames appended to the slot, in order
    consumed,       \* samples of all frames avPacketDequeue returned, in order
    batch,          \* the frames appended since the slot was last taken
    lastBatch,      \* batch at the moment of the last take
    ptsIn,          \* presentation time check: the frame's pts
    tbIn,           \* presentation time check: the frame's timebase
    ptsOut,         \* presentation time check: the value passed to the codec
    rdIn,           \* readPacket check: what the codec gave (buffer, metadata)
    rdOut,          \* readPacket check: the packet built and the bytes read
    mapIn,          \* format mapping check: the function called and its argument
    mapOut,         \* format mapping check: what the call returned
    convState,      \* state of the converter element m_convert
    lpc,            \* owner thread: position in init / uninit / ~AudioStream
    lifeLog,        \* init, uninit and destructor calls that returned, in order
    atStop          \* ticks, deposits and samples so far when uninit last returned

slotVars == <<m_frame, m_frameMutex>>
producerVars == <<ppc, iPacket, nDeposits, nextSample>>
tickVars == <<tpc, eos, packet, bufferIndex, info, oPacket, result, nTicks>>
codecVars == <<inputFree, outSerial, calls, queued, delivered, released, emitted>>
historyVars == <<deposited, consumed, batch, lastBatch>>
ptsVars == <<ptsIn, tbIn, ptsOut>>
readVars == <<rdIn, rdOut>>
\* The variables of the checks of single functions; the threads leave them
\* alone.
mapVars == <<mapIn, mapOut>>
pureVars == <<ptsVars, readVars, mapVars>>
lifeVars == <<convState, lpc, lifeLog, atStop>>
vars == <<slotVars, producerVars, tickVars, codecVars, historyVars, pureVars,
          lifeVars>>

NoInfo == [offset |-> 0, size |-> 0, presentationTimeUs |-> 0]
NoTime == <<>>

InitStream ==
    /\ m_frame = NullPacket
    /\ m_frameMutex = "free"
    /\ ppc = "idle"
    /\ iPacket = NullPacket
    /\ nDeposits = 0
    /\ nextSample = 1
    /\ tpc = "idle"
    /\ eos = FALSE
    /\ packet = NullPacket
    /\ bufferIndex = -1
    /\ info = NoInfo
    /\ oPacket = NullPacket
    /\ result = "none"
    /\ nTicks = 0
    /\ inputFree = InputIndices
    /\ outSerial = 0
    /\ calls = <<>>
    /\ queued = <<>>
    /\ delivered = <<>>
    /\ released = <<>>
    /\ emitted = <<>>
    /\ deposited = <<>>
    /\ consumed = <<>>
    /\ batch = <<>>
    /\ lastBatch = <<>>

\* Nothing given to the presentation time check, nor to the readPacket check.
PtsIdle ==
    /\ ptsIn = 0
    /\ tbIn = FrameTimeBase
    /\ ptsOut = NoTime

NoRead == <<>>

ReadIdle ==
    /\ rdIn = NoRead
    /\ rdOut = NoRead

NoMap == <<>>

MapIdle ==
    /\ mapIn = NoMap
    /\ mapOut = NoMap

NoStop == <<>>

\* The stream after init() has returned true: the converter is playing.
LifeRunning ==
    /\ convState = "ElementStatePlaying"
    /\ lpc = "idle"
    /\ lifeLog = <<[op |-> "init", result |-> TRUE]>>
    /\ atStop = NoStop

Init ==
    /\ InitStream
    /\ PtsIdle
    /\ ReadIdle
    /\ MapIdle
    /\ LifeRunning

\* ---------------------------------------------------------- convertPacket
\* The converter converts while it is playing; set to null it gives no
\* packet.
ConverterActive == convState = "ElementStatePlaying"

\* What m_convert->iStream(packet) can give for a non-null packet: no packet,
\* or a converted frame of the next samples of the stream.
ConvertedFrames ==
    {NullPacket}
    \cup IF ConverterActive
         THEN {Frame(nextSample, len) : len \in 1..MaxFrameLen}
         ELSE {}

\* Lines 151-157: a null packet or a failed conversion returns at once;
\* otherwise the producer goes on to lock the frame mutex.
ConvertPacketCall ==
    /\ ppc \in {"idle", "rejected"}
    /\ \E isNull \in BOOLEAN, conv \in ConvertedFrames :
        IF isNull \/ ~conv.valid
        THEN /\ ppc' = "rejected"
             /\ UNCHANGED <<iPacket, nDeposits, nextSample>>
        ELSE /\ nDeposits < MaxDeposits
             /\ ppc' = "lock"
             /\ iPacket' = conv
             /\ nDeposits' = nDeposits + 1
             /\ nextSample' = nextSample + Len(conv.buffer)
    /\ UNCHANGED <<slotVars, tickVars, codecVars, historyVars, pureVars, lifeVars>>

\* A convertPacket that goes on to the slot without waiting for the mutex.
ConvertPacketLockBarging ==
    /\ ppc = "lock"
    /\ m_frameMutex' = "producer"
    /\ ppc' = "append"
    /\ UNCHANGED <<m_frame, iPacket, nDeposits, nextSample, tickVars,
                   codecVars, historyVars, pureVars, lifeVars>>

\* Line 159: m_frameMutex.lock().
ConvertPacketLock ==
    /\ ppc = "lock"
    /\ m_frameMutex = "free"
    /\ m_frameMutex' = "producer"
    /\ ppc' = "append"
    /\ UNCHANGED <<m_frame, iPacket, nDeposits, nextSample, tickVars,
                   codecVars, historyVars, pureVars, lifeVars>>

\* A convertPacket that assigns the frame to the slot instead of adding it.
ConvertPacketOverwrite ==
    /\ ppc = "append"
    /\ m_frame' = iPacket
    /\ tpc' = IF tpc = "deq_wait" THEN "deq_woken" ELSE tpc
    /\ m_frameMutex' = "free"
    /\ ppc' = "idle"
    /\ iPacket' = NullPacket
    /\ deposited' = deposited \o iPacket.buffer
    /\ batch' = Append(batch, iPacket.buffer)
    /\ UNCHANGED <<nDeposits, nextSample, eos, packet, bufferIndex, info,
                   oPacket, result, nTicks, codecVars, consumed, lastBatch,
                   pureVars, lifeVars>>

\* Lines 160-162: m_frame += iPacket; wakeAll(); unlock().  wakeAll wakes the
\* tick thread when it waits on m_frameReady.
ConvertPacketAppend ==
    /\ ppc = "append"
    /\ m_frame' = AkAppend(m_frame, iPacket)
    /\ tpc' = IF tpc = "deq_wait" THEN "deq_woken" ELSE tpc
    /\ m_frameMutex' = "free"
    /\ ppc' = "idle"
    /\ iPacket' = NullPacket
    /\ deposited' = deposited \o iPacket.buffer
    /\ batch' = Append(batch, iPacket.buffer)
    /\ UNCHANGED <<nDeposits, nextSample, eos, packet, bufferIndex, info,
                   oPacket, result, nTicks, codecVars, consumed, lastBatch,
                   pureVars, lifeVars>>

\* -------------------------------------------------------- avPacketDequeue
\* The value of result after encodeData returned b; it is "none" while a
\* call runs and before the first.
Returned(b) == IF b THEN "true" ELSE "false"

\* Leaving encodeData: its locals go, the return value stays.
Return(value) ==
    /\ tpc' = "idle"
    /\ result' = Returned(value)
    /\ packet' = NullPacket
    /\ bufferIndex' = -1
    /\ info' = NoInfo
    /\ oPacket' = NullPacket

\* Line 183 calling line 233: m_frameMutex.lock().
DequeueLock ==
    /\ tpc = "deq_lock"
    /\ m_frameMutex = "free"
    /\ m_frameMutex' = "tick"
    /\ tpc' = "deq_check"
    /\ UNCHANGED <<m_frame, producerVars, eos, packet, bufferIndex, info,
                   oPacket, result, nTicks, codecVars, historyVars, pureVars, lifeVars>>

\* Lines 235-237: an empty slot makes the thread wait on m_frameReady, which
\* releases the mutex; a slot with content goes on to the take.
DequeueCheck ==
    /\ tpc = "deq_check"
    /\ IF m_frame.valid
       THEN /\ tpc' = "deq_take"
            /\ UNCHANGED m_frameMutex
       ELSE /\ tpc' = "deq_wait"
            /\ m_frameMutex' = "free"
    /\ UNCHANGED <<m_frame, producerVars, eos, packet, bufferIndex, info,
                   oPacket, result, nTicks, codecVars, historyVars, pureVars, lifeVars>>

\* Line 236: THREAD_WAIT_LIMIT passes with no wake-up.
WaitTimeout ==
    /\ tpc = "deq_wait"
    /\ tpc' = "deq_timedout"
    /\ UNCHANGED <<slotVars, producerVars, eos, packet, bufferIndex, info,
                   oPacket, result, nTicks, codecVars, historyVars, pureVars, lifeVars>>

\* Line 236: wait() takes the mutex again before it returns, true after a
\* wake-up and false after the timeout.
WaitRelock ==
    /\ tpc \in {"deq_woken", "deq_timedout"}
    /\ m_frameMutex = "free"
    /\ m_frameMutex' = "tick"
    /\ tpc' = IF tpc = "deq_woken" THEN "deq_take" ELSE "deq_giveup"
    /\ UNCHANGED <<m_frame, producerVars, eos, packet, bufferIndex, info,
                   oPacket, result, nTicks, codecVars, historyVars, pureVars, lifeVars>>

\* An avPacketDequeue whose timeout path returns without the unlock.
DequeueGiveUpLocked ==
    /\ tpc = "deq_giveup"
    /\ Return(FALSE)
    /\ UNCHANGED <<slotVars, producerVars, eos, nTicks, codecVars,
                   historyVars, pureVars, lifeVars>>

\* An encodeData that goes on to the codec without a frame.
DequeueGiveUpGoesOn ==
    /\ tpc = "deq_giveup"
    /\ m_frameMutex' = "free"
    /\ tpc' = "in_dequeue"
    /\ UNCHANGED <<m_frame, producerVars, eos, packet, bufferIndex, info,
                   oPacket, result, nTicks, codecVars, historyVars, pureVars, lifeVars>>

\* Lines 238-240, then 185-186: unlock, return nullptr; encodeData returns
\* false.
DequeueGiveUp ==
    /\ tpc = "deq_giveup"
    /\ m_frameMutex' = "free"
    /\ Return(FALSE)
    /\ UNCHANGED <<m_frame, producerVars, eos, nTicks, codecVars,
                   historyVars, pureVars, lifeVars>>

\* An avPacketDequeue that returns the slot's content and leaves it there.
DequeueTakeKeepsSlot ==
    /\ tpc = "deq_take"
    /\ m_frameMutex' = "free"
    /\ consumed' = consumed \o m_frame.buffer
    /\ lastBatch' = batch
    /\ batch' = <<>>
    /\ tpc' = "in_dequeue"
    /\ packet' = m_frame
    /\ UNCHANGED <<m_frame, producerVars, eos, bufferIndex, info, oPacket,
                   result, nTicks, codecVars, deposited, pureVars, lifeVars>>

\* Lines 243-247, then 185-186: the slot's content is taken, the slot is
\* emptied, the mutex released; encodeData returns false on an empty frame.
DequeueTake ==
    /\ tpc = "deq_take"
    /\ m_frame' = NullPacket
    /\ m_frameMutex' = "free"
    /\ consumed' = consumed \o m_frame.buffer
    /\ lastBatch' = batch
    /\ batch' = <<>>
    /\ IF m_frame.valid
       THEN /\ tpc' = "in_dequeue"
            /\ packet' = m_frame
            /\ UNCHANGED <<bufferIndex, info, oPacket, result>>
       ELSE Return(FALSE)
    /\ UNCHANGED <<producerVars, eos, nTicks, codecVars, deposited, pureVars, lifeVars>>

\* ------------------------------------------------------------- the codec
\* AMEDIACODEC_BUFFER_FLAG_END_OF_STREAM of NdkMediaCodec.h.
FlagEndOfStream == 4

\* What a dequeue can return: a negative value (nothing within the timeout,
\* or one of the codec's negative info codes) or an index the codec owns.
TryAgainLater == -1

\* The stream's index.
StreamIndex == 1

\* The bytes of the output buffer the codec delivers as number serial.
OutputData(serial) == [p \in 1..OutCap |-> 10 * serial + p]

\* The metadata of the output buffer number serial: an empty buffer (size 0,
\* not rendered) or a full one.
OutputInfos(serial) ==
    {[offset |-> 0, size |-> z, presentationTimeUs |-> 1000 * serial] :
        z \in {0, OutCap}}

\* What a read past the end of the codec's buffer can give.
StrayBytes == {0, 255}

\* Lines 273-293.  data and bufferSize are what AMediaCodec_getOutputBuffer
\* gave: the buffer's bytes and capacity, or no pointer (<<>>) with
\* bufferSize left at the 0 of line 276.  The copy of line 282 reads
\* bufferSize bytes from data + info.offset; bytes past the end of the
\* buffer are whatever the memory holds.
ReadPacket(data, bufferSize, inf) ==
    LET n == Min(bufferSize, inf.size)
    IN  {[valid |-> TRUE,
          buffer |-> [i \in 1..n |->
                        IF inf.offset + i <= Len(data)
                        THEN data[inf.offset + i] ELSE stray],
          pts |-> inf.presentationTimeUs,
          tb |-> <<1, MicrosPerSecond>>,
          index |-> StreamIndex,
          id |-> 0] : stray \in StrayBytes}

\* Line 282: the positions (from 0) of the codec's buffer that the copy
\* reads, bufferSize being the capacity cut to info.size by line 280.
ReadPositions(bufferSize, inf) ==
    {inf.offset + i - 1 : i \in 1..Min(bufferSize, inf.size)}

\* ------------------------------------------------------------- encodeData
\* Line 165: a tick starts, with or without eos.
EncodeDataCall ==
    /\ tpc = "idle"
    /\ nTicks < MaxTicks
    /\ \E e \in BOOLEAN :
        /\ eos' = e
        /\ tpc' = IF e THEN "eos_dequeue" ELSE "deq_lock"
    /\ nTicks' = nTicks + 1
    /\ result' = "none"
    /\ calls' = <<>>
    /\ UNCHANGED <<slotVars, producerVars, packet, bufferIndex, info, oPacket,
                   inputFree, outSerial, queued, delivered, released, emitted,
                   historyVars, pureVars, lifeVars>>

\* Lines 170-174: the end-of-stream path asks for an input buffer.
EosDequeueInput ==
    /\ tpc = "eos_dequeue"
    /\ \E r \in {TryAgainLater} \cup inputFree :
        /\ calls' = Append(calls, [op |-> "dequeueInputBuffer", index |-> r])
        /\ IF r < 0
           THEN /\ Return(FALSE)
                /\ UNCHANGED inputFree
           ELSE /\ tpc' = "eos_queue"
                /\ bufferIndex' = r
                /\ inputFree' = inputFree \ {r}
                /\ UNCHANGED <<packet, info, oPacket, result>>
    /\ UNCHANGED <<slotVars, producerVars, eos, nTicks, outSerial, queued,
                   delivered, released, emitted, historyVars, pureVars, lifeVars>>

\* A queueInputBuffer call as the codec sees it; frame and cap record what
\* the call was made from.
QueueCall(index, offset, size, time, flags, bytes, frame, cap) ==
    [op |-> "queueInputBuffer", index |-> index, offset |-> offset,
     size |-> size, time |-> time, flags |-> flags, bytes |-> bytes,
     frame |-> frame, cap |-> cap]

\* What the log of all queued input keeps of a call: what the codec got and
\* the frame it was cut from.
Submitted(c) ==
    [offset |-> c.offset, size |-> c.size, time |-> c.time,
     flags |-> c.flags, bytes |-> c.bytes, frame |-> c.frame]

\* An end-of-stream path that queues the empty buffer without the flag.
EosQueueInputUnflagged ==
    /\ tpc = "eos_queue"
    /\ LET c == QueueCall(bufferIndex, 0, 0, ToUInt64(<<0, 0>>), 0,
                          <<>>, <<>>, 0)
       IN  /\ calls' = Append(calls, c)
           /\ queued' = Append(queued, Submitted(c))
    /\ inputFree' = inputFree \cup {bufferIndex}
    /\ tpc' = "out_dequeue"
    /\ UNCHANGED <<slotVars, producerVars, eos, packet, bufferIndex, info,
                   oPacket, result, nTicks, outSerial, delivered, released,
                   emitted, historyVars, pureVars, lifeVars>>

\* Lines 176-181: the end-of-stream marker is queued.
EosQueueInput ==
    /\ tpc = "eos_queue"
    /\ LET c == QueueCall(bufferIndex, 0, 0, ToUInt64(<<0, 0>>),
                          FlagEndOfStream, <<>>, <<>>, 0)
       IN  /\ calls' = Append(calls, c)
           /\ queued' = Append(queued, Submitted(c))
    /\ inputFree' = inputFree \cup {bufferIndex}
    /\ tpc' = "out_dequeue"
    /\ UNCHANGED <<slotVars, producerVars, eos, packet, bufferIndex, info,
                   oPacket, result, nTicks, outSerial, delivered, released,
                   emitted, historyVars, pureVars, lifeVars>>

\* Lines 188-192: the normal path asks for an input buffer; with none the
\* tick returns false and the frame it pulled goes with its locals.
DequeueInput ==
    /\ tpc = "in_dequeue"
    /\ \E r \in {TryAgainLater} \cup inputFree :
        /\ calls' = Append(calls, [op |-> "dequeueInputBuffer", index |-> r])
        /\ IF r < 0
           THEN /\ Return(FALSE)
                /\ UNCHANGED inputFree
           ELSE /\ tpc' = "fill"
                /\ bufferIndex' = r
                /\ inputFree' = inputFree \ {r}
                /\ UNCHANGED <<packet, info, oPacket, result>>
    /\ UNCHANGED <<slotVars, producerVars, eos, nTicks, outSerial, queued,
                   delivered, released, emitted, historyVars, pureVars, lifeVars>>

\* An encodeData that queues the frame's size without the qMin of line 202.
FillAndQueueInputUnclamped ==
    /\ tpc = "fill"
    /\ \E cap \in 0..MaxCap :
        IF cap = 0
        THEN /\ calls' = Append(calls, [op |-> "getInputBuffer",
                                        index |-> bufferIndex])
             /\ Return(FALSE)
             /\ UNCHANGED <<inputFree, queued>>
        ELSE \E time \in PresentationTimeUs(packet.pts, packet.tb) :
             LET buffersize == Len(packet.buffer)
                 c == QueueCall(bufferIndex, 0, buffersize, time, 0,
                                SubSeq(packet.buffer, 1, buffersize),
                                packet.buffer, cap)
             IN  /\ calls' = calls \o <<[op |-> "getInputBuffer",
                                         index |-> bufferIndex], c>>
                 /\ queued' = Append(queued, Submitted(c))
                 /\ inputFree' = inputFree \cup {bufferIndex}
                 /\ tpc' = "out_dequeue"
                 /\ UNCHANGED <<packet, bufferIndex, info, oPacket, result>>
    /\ UNCHANGED <<slotVars, producerVars, eos, nTicks, outSerial, delivered,
                   released, emitted, historyVars, pureVars, lifeVars>>

\* Lines 194-211: getInputBuffer gives no pointer (cap = 0: return false,
\* the index stays dequeued) or a buffer of capacity cap; the first
\* min(size, cap) bytes of the frame are copied and queued with the
\* presentation time and flags 0.
FillAndQueueInput ==
    /\ tpc = "fill"
    /\ \E cap \in 0..MaxCap :
        IF cap = 0
        THEN /\ calls' = Append(calls, [op |-> "getInputBuffer",
                                        index |-> bufferIndex])
             /\ Return(FALSE)
             /\ UNCHANGED <<inputFree, queued>>
        ELSE \E time \in PresentationTimeUs(packet.pts, packet.tb) :
             LET buffersize == Min(Len(packet.buffer), cap)
                 c == QueueCall(bufferIndex, 0, buffersize, time, 0,
                                SubSeq(packet.buffer, 1, buffersize),
                                packet.buffer, cap)
             IN  /\ calls' = calls \o <<[op |-> "getInputBuffer",
                                         index |-> bufferIndex], c>>
                 /\ queued' = Append(queued, Submitted(c))
                 /\ inputFree' = inputFree \cup {bufferIndex}
                 /\ tpc' = "out_dequeue"
                 /\ UNCHANGED <<packet, bufferIndex, info, oPacket, result>>
    /\ UNCHANGED <<slotVars, producerVars, eos, nTicks, outSerial, delivered,
                   released, emitted, historyVars, pureVars, lifeVars>>

\* An encodeData that returns false when no output buffer is ready.
DequeueOutputStrict ==
    /\ tpc = "out_dequeue"
    /\ \/ /\ calls' = Append(calls, [op |-> "dequeueOutputBuffer",
                                     index |-> TryAgainLater])
          /\ Return(FALSE)
          /\ UNCHANGED <<outSerial, delivered>>
       \/ /\ \E inf \in OutputInfos(outSerial + 1) :
              /\ info' = inf
              /\ calls' = Append(calls, [op |-> "dequeueOutputBuffer",
                                         index |-> outSerial + 1])
          /\ outSerial' = outSerial + 1
          /\ bufferIndex' = outSerial + 1
          /\ delivered' = Append(delivered, outSerial + 1)
          /\ tpc' = "read"
          /\ UNCHANGED <<packet, oPacket, result>>
    /\ UNCHANGED <<slotVars, producerVars, eos, nTicks, inputFree, queued,
                   released, emitted, historyVars, pureVars, lifeVars>>

\* Lines 214-219 and 228: info is zeroed and an output buffer asked for;
\* with none the tick returns true.
DequeueOutput ==
    /\ tpc = "out_dequeue"
    /\ \/ /\ calls' = Append(calls, [op |-> "dequeueOutputBuffer",
                                     index |-> TryAgainLater])
          /\ Return(TRUE)
          /\ UNCHANGED <<outSerial, delivered>>
       \/ /\ \E inf \in OutputInfos(outSerial + 1) :
              /\ info' = inf
              /\ calls' = Append(calls, [op |-> "dequeueOutputBuffer",
                                         index |-> outSerial + 1])
          /\ outSerial' = outSerial + 1
          /\ bufferIndex' = outSerial + 1
          /\ delivered' = Append(delivered, outSerial + 1)
          /\ tpc' = "read"
          /\ UNCHANGED <<packet, oPacket, result>>
    /\ UNCHANGED <<slotVars, producerVars, eos, nTicks, inputFree, queued,
                   released, emitted, historyVars, pureVars, lifeVars>>

\* Line 220: readPacket copies the payload out of the codec's buffer, also
\* when AMediaCodec_getOutputBuffer gave no pointer (there is no check).
ReadOutput ==
    /\ tpc = "read"
    /\ \E noPointer \in BOOLEAN :
        \E p \in IF noPointer
                 THEN ReadPacket(<<>>, 0, info)
                 ELSE ReadPacket(OutputData(bufferIndex), OutCap, info) :
            /\ oPacket' = p
            /\ calls' = Append(calls, [op |-> "getOutputBuffer",
                                       index |-> bufferIndex,
                                       pointer |-> ~noPointer])
    /\ tpc' = "release"
    /\ UNCHANGED <<slotVars, producerVars, eos, packet, bufferIndex, info,
                   result, nTicks, inputFree, outSerial, queued, delivered,
                   released, emitted, historyVars, pureVars, lifeVars>>

\* Lines 222-224: the output buffer goes back to the codec.
ReleaseOutput ==
    /\ tpc = "release"
    /\ calls' = Append(calls, [op |-> "releaseOutputBuffer",
                               index |-> bufferIndex,
                               render |-> (info.size # 0)])
    /\ released' = Append(released, bufferIndex)
    /\ tpc' = "emit"
    /\ UNCHANGED <<slotVars, producerVars, eos, packet, bufferIndex, info,
                   oPacket, result, nTicks, inputFree, outSerial, queued,
                   delivered, emitted, historyVars, pureVars, lifeVars>>

\* An encodeData that emits no packet for an output buffer of size 0.
EmitPacketUnlessEmpty ==
    /\ tpc = "emit"
    /\ IF info.size = 0
       THEN UNCHANGED <<calls, emitted>>
       ELSE /\ calls' = Append(calls, [op |-> "packetReady",
                                       index |-> bufferIndex])
            /\ emitted' = Append(emitted, bufferIndex)
    /\ Return(TRUE)
    /\ UNCHANGED <<slotVars, producerVars, eos, nTicks, inputFree, outSerial,
                   queued, delivered, released, historyVars, pureVars, lifeVars>>

\* Lines 225-228: packetReady is emitted and the tick returns true.
EmitPacket ==
    /\ tpc = "emit"
    /\ calls' = Append(calls, [op |-> "packetReady", index |-> bufferIndex])
    /\ emitted' = Append(emitted, bufferIndex)
    /\ Return(TRUE)
    /\ UNCHANGED <<slotVars, producerVars, eos, nTicks, inputFree, outSerial,
                   queued, delivered, released, historyVars, pureVars, lifeVars>>

\* ------------------------------------------------------ the specification
Next ==
    \/ ConvertPacketCall
    \/ ConvertPacketLock
    \/ ConvertPacketAppend
    \/ EncodeDataCall
    \/ DequeueLock
    \/ DequeueCheck
    \/ WaitTimeout
    \/ WaitRelock
    \/ DequeueGiveUp
    \/ DequeueTake
    \/ EosDequeueInput
    \/ EosQueueInput
    \/ DequeueInput
    \/ FillAndQueueInput
    \/ DequeueOutput
    \/ ReadOutput
    \/ ReleaseOutput
    \/ EmitPacket

Spec == Init /\ [][Next]_vars

\* The tick thread's steps inside one encodeData call.
TickStep ==
    \/ DequeueLock
    \/ DequeueCheck
    \/ WaitTimeout
    \/ WaitRelock
    \/ DequeueGiveUp
    \/ DequeueTake
    \/ EosDequeueInput
    \/ EosQueueInput
    \/ DequeueInput
    \/ FillAndQueueInput
    \/ DequeueOutput
    \/ ReadOutput
    \/ ReleaseOutput
    \/ EmitPacket

\* Both threads keep running: a started encodeData call goes on (the wait of
\* line 236 ends at THREAD_WAIT_LIMIT at the latest), and a producer that
\* holds the mutex reaches its unlock.
FairSpec ==
    /\ Spec
    /\ WF_vars(TickStep)
    /\ WF_vars(ConvertPacketLock)
    /\ WF_vars(ConvertPacketAppend)

\* ------------------------------------- the presentation time, on its own
\* Frames with a pts up to MaxSmallPts, and around the first pts whose
\* microseconds pass INT_MAX, in timebases of 1 s, 1 ms and 1/48000 s.
PtsValues == (0..MaxSmallPts) \cup {2147, 2148, 103079215, 103079216}
TimeBases == {<<1, 1>>, <<1, 1000>>, FrameTimeBase}

PtsInit ==
    /\ InitStream
    /\ ptsIn \in PtsValues
    /\ tbIn \in TimeBases
    /\ ptsOut = NoTime
    /\ ReadIdle
    /\ MapIdle
    /\ LifeRunning

\* Lines 204-210 on the frame (ptsIn, tbIn).
ComputePresentationTime ==
    /\ ptsOut = NoTime
    /\ ptsOut' \in PresentationTimeUs(ptsIn, tbIn)
    /\ UNCHANGED <<slotVars, producerVars, tickVars, codecVars, historyVars,
                   ptsIn, tbIn, readVars, mapVars, lifeVars>>

PtsNext == ComputePresentationTime

PtsSpec == PtsInit /\ [][PtsNext]_vars

\* ---------------------------------------------------- readPacket, on its own
\* The output buffers and metadata the codec can give readPacket: a buffer
\* of 1..OutCap + 1 bytes or no pointer, an offset inside the buffer or at
\* its end, a size up to more than the buffer holds.
ReadCapacities == 1..(OutCap + 1)
ReadOffsets == 0..(OutCap + 1)
ReadSizes == 0..(OutCap + 2)
ReadTimes == {0, 1000}

\* The bytes of an output buffer of capacity cap.
ReadData(cap) == [p \in 1..cap |-> 10 + p]

ReadInputs ==
    {[pointer |-> ptr, data |-> IF ptr THEN ReadData(cap) ELSE <<>>,
      info |-> [offset |-> o, size |-> z, presentationTimeUs |-> t]] :
        ptr \in BOOLEAN, cap \in ReadCapacities, o \in ReadOffsets,
        z \in ReadSizes, t \in ReadTimes}

ReadInit ==
    /\ InitStream
    /\ PtsIdle
    /\ rdIn \in ReadInputs
    /\ rdOut = NoRead
    /\ MapIdle
    /\ LifeRunning

\* Lines 273-293 on the buffer and metadata rdIn; with no pointer bufferSize
\* stays at the 0 of line 276.
ReadPacketCall ==
    /\ rdOut = NoRead
    /\ LET bufferSize == Len(rdIn.data)
       IN  \E p \in ReadPacket(rdIn.data, bufferSize, rdIn.info) :
               rdOut' = [packet |-> p,
                         read |-> ReadPositions(bufferSize, rdIn.info)]
    /\ UNCHANGED <<slotVars, producerVars, tickVars, codecVars, historyVars,
                   ptsVars, rdIn, mapVars, lifeVars>>

ReadNext == ReadPacketCall

ReadSpec == ReadInit /\ [][ReadNext]_vars

\* ------------------------------------- the format mappings, on their own
\* Lines 34-36.
ENCODING_PCM_16BIT == 2
ENCODING_PCM_8BIT == 3
ENCODING_PCM_FLOAT == 4

\* Lines 38-49.
CHANNEL_MASK_MONO == 2
CHANNEL_MASK_FRONT_LEFT == 4
CHANNEL_MASK_FRONT_RIGHT == 8
CHANNEL_MASK_FRONT_CENTER == 16
CHANNEL_MASK_LOW_FREQUENCY == 32
CHANNEL_MASK_BACK_LEFT == 64
CHANNEL_MASK_BACK_RIGHT == 128
CHANNEL_MASK_FRONT_LEFT_OF_CENTER == 256
CHANNEL_MASK_FRONT_RIGHT_OF_CENTER == 512
CHANNEL_MASK_BACK_CENTER == 1024
CHANNEL_MASK_SIDE_LEFT == 2048
CHANNEL_MASK_SIDE_RIGHT == 4096

\* Lines 53-71: the map from a mask bit to a position.
channelMaskToPosition ==
    (CHANNEL_MASK_MONO :> "Position_FrontCenter")
    @@ (CHANNEL_MASK_FRONT_LEFT :> "Position_FrontLeft")
    @@ (CHANNEL_MASK_FRONT_RIGHT :> "Position_FrontRight")
    @@ (CHANNEL_MASK_FRONT_CENTER :> "Position_FrontCenter")
    @@ (CHANNEL_MASK_LOW_FREQUENCY :> "Position_LowFrequency1")
    @@ (CHANNEL_MASK_BACK_LEFT :> "Position_BackLeft")
    @@ (CHANNEL_MASK_BACK_RIGHT :> "Position_BackRight")
    @@ (CHANNEL_MASK_FRONT_LEFT_OF_CENTER :> "Position_FrontLeftOfCenter")
    @@ (CHANNEL_MASK_FRONT_RIGHT_OF_CENTER :> "Position_FrontRightOfCenter")
    @@ (CHANNEL_MASK_BACK_CENTER :> "Position_BackCenter")
    @@ (CHANNEL_MASK_SIDE_LEFT :> "Position_SideLeft")
    @@ (CHANNEL_MASK_SIDE_RIGHT :> "Position_SideRight")

\* QMap::value(key): the value of key, or a default-constructed value (0)
\* when the map has no such key.
QMapValue(map, key) == IF key \in DOMAIN map THEN map[key] ELSE 0

\* QMap::key(value): the first key, in the map's ascending key order, that
\* has the value, or a default-constructed key (0) when none has.
QMapKey(map, value) ==
    LET keys == {k \in DOMAIN map : map[k] = value}
    IN  IF keys = {} THEN 0
        ELSE CHOOSE k \in keys : \A j \in keys : k <= j

\* Lines 130-134.
encodingTable ==
    ("SampleFormat_u8" :> ENCODING_PCM_8BIT)
    @@ ("SampleFormat_s16" :> ENCODING_PCM_16BIT)
    @@ ("SampleFormat_flt" :> ENCODING_PCM_FLOAT)

\* Lines 128-137.
EncodingFromSampleFormat(format) == QMapValue(encodingTable, format)

\* a | b on non-negative integers.
RECURSIVE BitOr(_, _)
BitOr(a, b) ==
    IF a = 0 THEN b
    ELSE IF b = 0 THEN a
    ELSE (IF a % 2 = 1 \/ b % 2 = 1 THEN 1 ELSE 0)
         + (2 * BitOr(a \div 2, b \div 2))

\* Lines 141-146, positions being AkAudioCaps::positions(layout).
RECURSIVE ChannelMaskFromLayout(_)
ChannelMaskFromLayout(positions) ==
    IF positions = {} THEN 0
    ELSE LET position == CHOOSE q \in positions : TRUE
         IN  BitOr(QMapKey(channelMaskToPosition, position),
                   ChannelMaskFromLayout(positions \ {position}))

\* Sample formats: the three of the table and some of the others.
SampleFormats ==
    {"SampleFormat_u8", "SampleFormat_s16", "SampleFormat_flt",
     "SampleFormat_none", "SampleFormat_s8", "SampleFormat_u16",
     "SampleFormat_s32", "SampleFormat_dbl"}

\* Positions: those of the table and two it does not have.
Positions ==
    {channelMaskToPosition[b] : b \in DOMAIN channelMaskToPosition}
    \cup {"Position_TopCenter", "Position_LowFrequency2"}

\* The layouts: up to MaxLayoutSize positions each.
Layouts == {l \in SUBSET Positions : Cardinality(l) <= MaxLayoutSize}

MapInit ==
    /\ InitStream
    /\ PtsIdle
    /\ ReadIdle
    /\ \/ \E format \in SampleFormats :
            mapIn = [fn |-> "encodingFromSampleFormat", arg |-> format]
       \/ \E layout \in Layouts :
            mapIn = [fn |-> "channelMaskFromLayout", arg |-> layout]
    /\ mapOut = NoMap
    /\ LifeRunning

\* A call of encodingFromSampleFormat: it returns a value, there is no other
\* way out of lines 128-137.
EncodingFromSampleFormatCall ==
    /\ mapOut = NoMap
    /\ mapIn.fn = "encodingFromSampleFormat"
    /\ mapOut' = [kind |-> "value",
                  value |-> EncodingFromSampleFormat(mapIn.arg)]
    /\ UNCHANGED <<slotVars, producerVars, tickVars, codecVars, historyVars,
                   ptsVars, readVars, mapIn, lifeVars>>

\* A call of channelMaskFromLayout.
ChannelMaskFromLayoutCall ==
    /\ mapOut = NoMap
    /\ mapIn.fn = "channelMaskFromLayout"
    /\ mapOut' = [kind |-> "value",
                  value |-> ChannelMaskFromLayout(mapIn.arg)]
    /\ UNCHANGED <<slotVars, producerVars, tickVars, codecVars, historyVars,
                   ptsVars, readVars, mapIn, lifeVars>>

MapNext ==
    \/ EncodingFromSampleFormatCall
    \/ ChannelMaskFromLayoutCall

MapSpec == MapInit /\ [][MapNext]_vars

\* ------------------------------------------------------------ the lifecycle
\* AkElement::setState: the element takes the state asked for.
SetState(state) == state

\* What AbstractStream::init() can return.
AbstractStreamInitResults == BOOLEAN

\* Line 252: init() sets the converter playing.
InitSetPlaying ==
    /\ lpc = "idle"
    /\ Len(lifeLog) < MaxLifeCalls
    /\ convState' = SetState("ElementStatePlaying")
    /\ lpc' = "init_base"
    /\ UNCHANGED <<slotVars, producerVars, tickVars, codecVars, historyVars,
                   pureVars, lifeLog, atStop>>

\* Line 253: AbstractStream::init() succeeds or fails.
InitBase ==
    /\ lpc = "init_base"
    /\ \E r \in AbstractStreamInitResults :
        lpc' = IF r THEN "init_return_true" ELSE "init_failed"
    /\ UNCHANGED <<slotVars, producerVars, tickVars, codecVars, historyVars,
                   pureVars, convState, lifeLog, atStop>>

\* An init() that leaves the converter playing when the stream failed to
\* start.
InitFailedKeepsPlaying ==
    /\ lpc = "init_failed"
    /\ lpc' = "init_return_false"
    /\ UNCHANGED <<slotVars, producerVars, tickVars, codecVars, historyVars,
                   pureVars, convState, lifeLog, atStop>>

\* Lines 255-256: on failure the converter goes back to null.
InitFailed ==
    /\ lpc = "init_failed"
    /\ convState' = SetState("ElementStateNull")
    /\ lpc' = "init_return_false"
    /\ UNCHANGED <<slotVars, producerVars, tickVars, codecVars, historyVars,
                   pureVars, lifeLog, atStop>>

\* Line 258: init() returns result.
InitReturn ==
    /\ lpc \in {"init_return_true", "init_return_false"}
    /\ lifeLog' = Append(lifeLog, [op |-> "init",
                                   result |-> (lpc = "init_return_true")])
    /\ lpc' = "idle"
    /\ UNCHANGED <<slotVars, producerVars, tickVars, codecVars, historyVars,
                   pureVars, convState, atStop>>

\* Line 263: uninit() is called and runs AbstractStream::uninit().
UninitBase ==
    /\ lpc = "idle"
    /\ Len(lifeLog) < MaxLifeCalls
    /\ lpc' = "uninit_null"
    /\ UNCHANGED <<slotVars, producerVars, tickVars, codecVars, historyVars,
                   pureVars, convState, lifeLog, atStop>>

\* Lines 264-265: the converter is set to null and uninit() returns; the
\* frame slot is left as it is.
UninitSetNull ==
    /\ lpc = "uninit_null"
    /\ convState' = SetState("ElementStateNull")
    /\ lifeLog' = Append(lifeLog, [op |-> "uninit", result |-> TRUE])
    /\ atStop' = [ticks |-> nTicks, deposits |-> nDeposits,
                  samples |-> nextSample - 1]
    /\ lpc' = "idle"
    /\ UNCHANGED <<slotVars, producerVars, tickVars, codecVars, historyVars,
                   pureVars>>

\* Lines 122-124: the destructor calls uninit(), up to AbstractStream's.
DestructorUninitBase ==
    /\ lpc = "idle"
    /\ Len(lifeLog) < MaxLifeCalls
    /\ lpc' = "dtor_null"
    /\ UNCHANGED <<slotVars, producerVars, tickVars, codecVars, historyVars,
                   pureVars, convState, lifeLog, atStop>>

\* Lines 264 and 125: the destructor's uninit() sets the converter to null
\* and returns, and the private data is deleted.
DestructorSetNullAndDelete ==
    /\ lpc = "dtor_null"
    /\ convState' = SetState("ElementStateNull")
    /\ lifeLog' = Append(lifeLog, [op |-> "~AudioStream", result |-> TRUE])
    /\ lpc' = "deleted"
    /\ UNCHANGED <<slotVars, producerVars, tickVars, codecVars, historyVars,
                   pureVars, atStop>>

\* The stream as the constructor leaves it (lines 118-119): the converter
\* is created and not started.
Constructed ==
    /\ convState = "ElementStateNull"
    /\ lpc = "idle"
    /\ lifeLog = <<>>
    /\ atStop = NoStop

LifeInit ==
    /\ InitStream
    /\ PtsIdle
    /\ ReadIdle
    /\ MapIdle
    /\ Constructed

InitAndUninitStep ==
    \/ InitSetPlaying
    \/ InitBase
    \/ InitFailed
    \/ InitReturn
    \/ UninitBase
    \/ UninitSetNull

LifeNext ==
    \/ InitAndUninitStep
    \/ DestructorUninitBase
    \/ DestructorSetNullAndDelete

\* init(), uninit() and the destructor, in every order.
LifeSpec == LifeInit /\ [][LifeNext]_vars

\* init() and uninit() in every order while the producer and the tick thread
\* run.
SessionNext ==
    \/ Next
    \/ InitAndUninitStep

SessionSpec == LifeInit /\ [][SessionNext]_vars

\* ------------------------------------------------------------- the claims
DequeuePcs ==
    {"deq_lock", "deq_check", "deq_wait", "deq_woken", "deq_timedout",
     "deq_giveup", "deq_take"}

\* The tick returned and left its log behind.
TickDone == tpc = "idle" /\ nTicks > 0

CallsOf(op) == {i \in 1..Len(calls) : calls[i].op = op}

QueuedBytes == UNION {Range(queued[i].bytes) : i \in 1..Len(queued)}

QueuedFrames == UNION {Range(queued[i].frame) : i \in 1..Len(queued)}

\* C1: in every state, under every interleaving of the producer and the tick
\* thread, the samples of all frames avPacketDequeue has returned, followed
\* by the samples in the slot, are the samples of all deposited frames in
\* deposit order: none lost, duplicated or reordered.
C1_HandOffKeepsEverySample == consumed \o m_frame.buffer = deposited

C1_Witness ==
    /\ Len(consumed) >= 1
    /\ m_frame.valid
    /\ tpc = "deq_take"

\* The slot holds exactly the frames appended since it was last taken, in
\* order, and the frame a take hands to encodeData is all of them.
C2_SlotHoldsBatch ==
    /\ m_frame.buffer = Flatten(batch)
    /\ m_frame.valid <=> batch # <<>>
    /\ tpc = "in_dequeue" =>
        /\ packet.valid
        /\ lastBatch # <<>>
        /\ packet.buffer = Flatten(lastBatch)

\* C2: the slot always holds exactly the frames deposited since it was last
\* taken, in deposit order (it is empty when none was); a consume that
\* returns a frame returns all of them as one frame, A then B, and leaves
\* none of it in the slot, so a consume returns data only after a new
\* deposit; a convertPacket call that returns early (null packet or failed
\* conversion) leaves the slot as it was.
C2_DepositThenConsume ==
    /\ []C2_SlotHoldsBatch
    /\ [][(ppc' = "rejected" /\ ppc' # ppc) => m_frame' = m_frame]_vars

C2_Witness ==
    /\ tpc = "in_dequeue"
    /\ Len(lastBatch) = 2
    /\ ~m_frame.valid
    /\ ppc = "rejected"

\* C3: outside avPacketDequeue the tick thread never holds the frame mutex;
\* the return after a timed-out wait is "no data" (encodeData returns false,
\* nothing is taken from the slot) with the mutex released; and a consume
\* that waits on the empty slot always returns.
C3_ConsumeReturns ==
    /\ [](tpc \notin DequeuePcs => m_frameMutex # "tick")
    /\ [][(tpc = "deq_giveup" /\ tpc' # tpc) =>
            /\ tpc' = "idle"
            /\ result' = Returned(FALSE)
            /\ m_frameMutex' = "free"
            /\ consumed' = consumed
            /\ m_frame' = m_frame]_vars
    /\ (tpc = "deq_wait") ~> (tpc \notin DequeuePcs)

C3_Witness ==
    /\ TickDone
    /\ ~eos
    /\ result = Returned(FALSE)
    /\ calls = <<>>
    /\ m_frameMutex = "free"
    /\ m_frame.valid

\* C4: a sample that was deposited is in a frame that was handed to
\* queueInputBuffer, or is still held for a later tick (in the slot or in
\* the frame the running tick pulled): a tick that finds no input buffer
\* does not lose the frame it pulled.
C4_FrameKeptForRetry ==
    \A s \in Range(deposited) :
        s \in QueuedFrames \cup Range(m_frame.buffer) \cup Range(packet.buffer)

\* C5: no codec call is made before the frame is obtained, and the tick
\* that gets no frame returns false with no codec call, no packetReady and
\* the codec untouched.
C5_NoFrameNoCodecCall ==
    /\ [](tpc \in DequeuePcs => calls = <<>>)
    /\ [][(tpc = "deq_giveup" /\ tpc' # tpc) =>
            /\ tpc' = "idle"
            /\ result' = Returned(FALSE)
            /\ calls' = <<>>
            /\ UNCHANGED codecVars]_vars

C5_Witness ==
    /\ TickDone
    /\ nTicks = 2
    /\ ~eos
    /\ result = Returned(FALSE)
    /\ calls = <<>>
    /\ Len(queued) = 1

\* C6: a normal tick queues at most one input buffer, and exactly one once
\* it has a frame and a buffer (it queues none only with no frame, no
\* buffer index or no buffer pointer); the call has offset 0, flags 0 and size
\* min(L, C) for the pulled frame's length L and the buffer's capacity C,
\* with the first min(L, C) bytes of the frame; the bytes of a frame beyond
\* what was queued are in no queued buffer, then or later.
C6_QueuesPrefixOnce ==
    /\ ~eos =>
        /\ Cardinality(CallsOf("queueInputBuffer")) <= 1
        /\ (tpc \in {"out_dequeue", "read", "release", "emit"}
                \/ (TickDone /\ result = Returned(TRUE))) =>
            Cardinality(CallsOf("queueInputBuffer")) = 1
        /\ (TickDone /\ CallsOf("queueInputBuffer") = {}) =>
            \/ calls = <<>>
            \/ calls = <<[op |-> "dequeueInputBuffer",
                          index |-> TryAgainLater]>>
            \/ /\ Len(calls) = 2
               /\ calls[2] = [op |-> "getInputBuffer",
                              index |-> calls[1].index]
        /\ \A i \in CallsOf("queueInputBuffer") :
            /\ calls[i].frame = Flatten(lastBatch)
            /\ calls[i].offset = 0
            /\ calls[i].flags = 0
            /\ calls[i].size = Min(Len(calls[i].frame), calls[i].cap)
            /\ calls[i].bytes = SubSeq(calls[i].frame, 1, calls[i].size)
            /\ Submitted(calls[i]) = queued[Len(queued)]
    /\ \A i \in 1..Len(queued) :
        \A k \in (queued[i].size + 1)..Len(queued[i].frame) :
            queued[i].frame[k] \notin QueuedBytes

C6_Witness ==
    /\ TickDone
    /\ Len(queued) = 2
    /\ queued[1].size < Len(queued[1].frame)
    /\ queued[2].flags = FlagEndOfStream

\* C7: the presentation time passed to queueInputBuffer is
\* round(10^6 * pts * num / den) for every pts and timebase.
C7_PresentationTimeIsRounded ==
    ptsOut # NoTime => ptsOut = ToUInt64(RoundedUs(ptsIn, tbIn))

\* C8: encodeData returns true exactly when the tick queued an input buffer
\* and false exactly when it queued none, whatever the output dequeue gave;
\* an output dequeue happens only after a queueInputBuffer of the same tick.
C8_TrueIffQueued ==
    /\ TickDone =>
        /\ result \in {Returned(TRUE), Returned(FALSE)}
        /\ result = Returned(CallsOf("queueInputBuffer") # {})
    /\ \A i \in CallsOf("dequeueOutputBuffer") :
        \E j \in CallsOf("queueInputBuffer") : j < i

C8_Witness ==
    /\ TickDone
    /\ result = Returned(TRUE)
    /\ calls[Len(calls)] =
        [op |-> "dequeueOutputBuffer", index |-> TryAgainLater]

\* C9: between ticks every output buffer the codec delivered has been
\* released once and has had its packetReady once, in the order of
\* delivery; at any moment at most the one buffer of the running tick is
\* still to be released or emitted, nothing is emitted that was not
\* released and nothing released that was not delivered; in a tick the
\* payload is read before the release and the release comes before
\* packetReady.
C9_OnePacketPerOutputBuffer ==
    /\ tpc = "idle" => (released = delivered /\ emitted = delivered)
    /\ Len(emitted) <= Len(released)
    /\ Len(released) <= Len(delivered)
    /\ Len(delivered) <= Len(emitted) + 1
    /\ emitted = SubSeq(delivered, 1, Len(emitted))
    /\ released = SubSeq(delivered, 1, Len(released))
    /\ Cardinality(CallsOf("packetReady")) <= 1
    /\ Cardinality(CallsOf("releaseOutputBuffer")) <= 1
    /\ \A i \in CallsOf("packetReady") :
        \E j \in CallsOf("releaseOutputBuffer") :
            /\ j < i
            /\ calls[j].index = calls[i].index
    /\ \A i \in CallsOf("releaseOutputBuffer") :
        /\ \E j \in CallsOf("getOutputBuffer") :
            /\ j < i
            /\ calls[j].index = calls[i].index
        /\ \E j \in CallsOf("dequeueOutputBuffer") :
            /\ j < i
            /\ calls[j].index = calls[i].index

C9_Witness ==
    /\ tpc = "idle"
    /\ emitted = <<1, 2>>

\* C10: an end-of-stream tick first asks for an input buffer; with none it
\* queues nothing, tries no output and returns false; with one it queues
\* exactly one buffer, with offset 0, size 0, time 0, the end-of-stream
\* flag and no payload, then tries the output once and returns true, also
\* when no output buffer is ready.
C10_EndOfStreamTick ==
    (eos /\ TickDone) =>
        /\ calls[1].op = "dequeueInputBuffer"
        /\ IF calls[1].index < 0
           THEN /\ result = Returned(FALSE)
                /\ Len(calls) = 1
           ELSE /\ result = Returned(TRUE)
                /\ Len(calls) >= 3
                /\ calls[2] = QueueCall(calls[1].index, 0, 0,
                                        <<0, 0, 0, 0>>, FlagEndOfStream,
                                        <<>>, <<>>, 0)
                /\ calls[3].op = "dequeueOutputBuffer"
                /\ Cardinality(CallsOf("queueInputBuffer")) = 1
                /\ Cardinality(CallsOf("dequeueOutputBuffer")) = 1
                /\ Cardinality(CallsOf("getInputBuffer")) = 0
                /\ queued[Len(queued)] = Submitted(calls[2])

C10_Witness ==
    /\ eos
    /\ TickDone
    /\ result = Returned(TRUE)
    /\ Len(calls) = 3
    /\ calls[3].index = TryAgainLater
    /\ Len(queued) = 1

\* C11: the packet readPacket builds from an output buffer of capacity K and
\* metadata {offset, size, presentationTimeUs} has min(K, size) bytes of
\* payload, which are the buffer's bytes from offset on, pts
\* presentationTimeUs, timebase 1/1000000, the stream's index and id 0.
C11_PacketIsBufferSlice ==
    rdOut # NoRead =>
        LET K == Len(rdIn.data)
            p == rdOut.packet
        IN  /\ Len(p.buffer) = Min(K, rdIn.info.size)
            /\ \A i \in 1..Len(p.buffer) :
                /\ rdIn.info.offset + i <= K
                /\ p.buffer[i] = rdIn.data[rdIn.info.offset + i]
            /\ p.pts = rdIn.info.presentationTimeUs
            /\ p.tb = <<1, 1000000>>
            /\ p.index = StreamIndex
            /\ p.id = 0

\* C20: the bytes readPacket reads are inside the codec's buffer: with
\* capacity K, offset o and size s it reads [o, o + n) with n <= min(K, s)
\* and o + n <= K.
C20_ReadStaysInBuffer ==
    rdOut # NoRead =>
        LET K == Len(rdIn.data)
            n == Cardinality(rdOut.read)
        IN  /\ n <= Min(K, rdIn.info.size)
            /\ rdOut.read = {rdIn.info.offset + i - 1 : i \in 1..n}
            /\ \A pos \in rdOut.read : pos < K

\* C12: when getOutputBuffer gives no pointer for the index of the drained
\* buffer, readPacket signals the failure instead of returning a packet, and
\* nothing is copied into a payload.
C12_NoPointerIsSignalled ==
    \A i \in CallsOf("getOutputBuffer") :
        (~calls[i].pointer /\ tpc \in {"release", "emit"}) =>
            /\ ~oPacket.valid
            /\ oPacket.buffer = <<>>

\* C13: encodingFromSampleFormat gives 0x3 for unsigned 8 bit, 0x2 for signed
\* 16 bit and 0x4 for float, and for every other sample format it fails with
\* UnsupportedFormat instead of returning a value.
C13_EncodingOrUnsupported ==
    (mapOut # NoMap /\ mapIn.fn = "encodingFromSampleFormat") =>
        IF mapIn.arg = "SampleFormat_u8"
        THEN mapOut = [kind |-> "value", value |-> 3]
        ELSE IF mapIn.arg = "SampleFormat_s16"
        THEN mapOut = [kind |-> "value", value |-> 2]
        ELSE IF mapIn.arg = "SampleFormat_flt"
        THEN mapOut = [kind |-> "value", value |-> 4]
        ELSE mapOut.kind = "UnsupportedFormat"

\* The bit the claim names for each position; a position it does not name
\* has none.
C14_BitOfPosition ==
    ("Position_FrontLeft" :> 4)
    @@ ("Position_FrontRight" :> 8)
    @@ ("Position_FrontCenter" :> 16)
    @@ ("Position_LowFrequency1" :> 32)
    @@ ("Position_BackLeft" :> 64)
    @@ ("Position_BackRight" :> 128)
    @@ ("Position_FrontLeftOfCenter" :> 256)
    @@ ("Position_FrontRightOfCenter" :> 512)
    @@ ("Position_BackCenter" :> 1024)
    @@ ("Position_SideLeft" :> 2048)
    @@ ("Position_SideRight" :> 4096)

\* Whether bit (a power of two) is set in mask.
C14_HasBit(mask, bit) == (mask \div bit) % 2 = 1

\* C14: the mask channelMaskFromLayout returns for a layout has exactly the
\* bits of the layout's positions, each position giving the bit the table
\* names for it and a position not in the table giving none.
C14_MaskIsOrOfPositionBits ==
    (mapOut # NoMap /\ mapIn.fn = "channelMaskFromLayout") =>
        /\ mapOut.kind = "value"
        /\ \A k \in 0..12 :
            C14_HasBit(mapOut.value, 2 ^ k) <=>
                \E position \in mapIn.arg \cap DOMAIN C14_BitOfPosition :
                    C14_BitOfPosition[position] = 2 ^ k
        /\ mapOut.value < 2 ^ 13

\* C15: every bit b of the table comes back from its position (the layout
\* of the one position of b gets the mask b), and no other bit of the table
\* has the position of b.
C15_BitPositionBijection ==
    (mapOut # NoMap /\ mapIn.fn = "channelMaskFromLayout") =>
        \A b \in DOMAIN channelMaskToPosition :
            mapIn.arg = {channelMaskToPosition[b]} =>
                /\ mapOut.value = b
                /\ \A c \in DOMAIN channelMaskToPosition :
                    channelMaskToPosition[c] = channelMaskToPosition[b] => c = b

\* The last call of the lifecycle that returned.
LastLifeCall == lifeLog[Len(lifeLog)]

\* C16: whenever init(), uninit() or the destructor's uninit() has returned,
\* the converter is playing if the call was an init() that returned true,
\* and null if it was an init() that returned false, an uninit() (with or
\* without an init() before it) or the destructor.
C16_ConverterFollowsLifecycle ==
    (lpc \in {"idle", "deleted"} /\ lifeLog # <<>>) =>
        convState = IF LastLifeCall.op = "init" /\ LastLifeCall.result
                    THEN "ElementStatePlaying"
                    ELSE "ElementStateNull"

C16_Witness ==
    /\ lpc = "deleted"
    /\ Len(lifeLog) = 3
    /\ lifeLog[1] = [op |-> "init", result |-> FALSE]
    /\ lifeLog[2] = [op |-> "init", result |-> TRUE]

\* uninit() has returned and no init() was called since.
Stopped ==
    /\ lpc = "idle"
    /\ lifeLog # <<>>
    /\ LastLifeCall.op = "uninit"

\* C17: once uninit() has returned, no deposit gets a frame to the slot and
\* an encodeData call begun since pulls no frame; and no encodeData call
\* begun after an uninit(), also after a later init(), pulls a frame with a
\* sample converted before that uninit().
C17_NoFrameAfterUninit ==
    /\ Stopped => nDeposits = atStop.deposits
    /\ (Stopped /\ nTicks > atStop.ticks) => ~packet.valid
    /\ (atStop # NoStop /\ nTicks > atStop.ticks) =>
        \A sample \in Range(packet.buffer) : sample > atStop.samples

\* C18: when encodeData returns, every input buffer index this call got from
\* dequeueInputBuffer was queued back once after it, every output buffer
\* index it got from dequeueOutputBuffer was released once after it, and the
\* codec has all its input buffer indices again.
C18_NoIndexRetained ==
    TickDone =>
        /\ \A i \in CallsOf("dequeueInputBuffer") :
            calls[i].index >= 0 =>
                Cardinality({j \in CallsOf("queueInputBuffer") :
                                j > i /\ calls[j].index = calls[i].index}) = 1
        /\ \A i \in CallsOf("dequeueOutputBuffer") :
            calls[i].index >= 0 =>
                Cardinality({j \in CallsOf("releaseOutputBuffer") :
                                j > i /\ calls[j].index = calls[i].index}) = 1
        /\ inputFree = InputIndices

\* Where the tick thread is between taking and releasing the mutex.
TickHoldsPcs == {"deq_check", "deq_take", "deq_giveup"}

\* Where the tick thread is in a codec call, in readPacket or emitting.
CodecPcs ==
    {"eos_dequeue", "eos_queue", "in_dequeue", "fill", "out_dequeue", "read",
     "release", "emit"}

\* C19: the producer and the tick thread are never both between lock and
\* unlock; the mutex is held exactly there; the slot changes only in a step
\* of the thread that holds the mutex; the tick thread does not hold it in
\* a codec call or while emitting; and the tick thread gives the mutex back
\* after at most two of its own steps (the test of the slot, then the take
\* or the wait), so a producer that waits for it while the tick thread
\* holds it sees it released.
C19_MutexHeldOnlyForSlot ==
    /\ [](~(ppc = "append" /\ tpc \in TickHoldsPcs))
    /\ [](m_frameMutex = "producer" <=> ppc = "append")
    /\ [](m_frameMutex = "tick" <=> tpc \in TickHoldsPcs)
    /\ [](tpc \in CodecPcs => m_frameMutex # "tick")
    /\ [][m_frame' # m_frame =>
            \/ m_frameMutex = "producer" /\ ppc = "append" /\ ppc' # ppc
            \/ m_frameMutex = "tick" /\ tpc = "deq_take" /\ tpc' # tpc]_vars
    /\ [][(m_frameMutex = "tick" /\ tpc' # tpc) =>
            (m_frameMutex' = "free" \/ tpc' = "deq_take")]_vars
    /\ (ppc = "lock" /\ m_frameMutex = "tick") ~> (m_frameMutex # "tick")

C19_Witness ==
    /\ ppc = "lock"
    /\ m_frameMutex = "tick"
    /\ tpc = "deq_take"
    /\ nTicks = 2

====
